---- MODULE Spec2Model ----
(***************************************************************************)
(* The profile routes of routes/api/profile.js as a state machine.         *)
(*                                                                         *)
(* The persistent store is three collections: Profile documents, User      *)
(* accounts and Posts.  Every route handler is a request that runs in one  *)
(* of the client slots; a handler runs from one await to the next in one   *)
(* step, so that the store calls of concurrent requests interleave.        *)
(*                                                                         *)
(* JS strings that the code only stores are TLA+ strings; strings the code *)
(* takes apart (skills, links, dates, identifiers) are sequences.          *)
(***************************************************************************)
EXTENDS Integers, Sequences, FiniteSets, TLC

\* ------------------------------------------------------------------ bounds
\* sub-document identifiers the store may generate
MaxIds == 5
\* Profile documents the store may create
MaxDocs == 4
\* requests started in one behaviour
MaxRequests == 2

\* ------------------------------------------------------------- the clients
\* owner identities known to the authentication collaborator
Users == {"u1", "u2"}
\* clients that issue requests, one request at a time each
Slots == {"c1", "c2"}

\* JS undefined, for a field that is only stored
Undefined == "undefined"
\* JS undefined, for a field the code takes apart
UndefinedSeq == <<"undefined">>

\* ------------------------------------------------------------ JS strings
\* String.prototype.trim on a sequence of characters
RECURSIVE TrimLeft(_)
TrimLeft(s) ==
  IF s # <<>> /\ Head(s) = " " THEN TrimLeft(Tail(s)) ELSE s

RECURSIVE TrimRight(_)
TrimRight(s) ==
  IF s # <<>> /\ s[Len(s)] = " " THEN TrimRight(SubSeq(s, 1, Len(s) - 1)) ELSE s

Trim(s) == TrimRight(TrimLeft(s))

\* String.prototype.split(","): the segments between the commas, "" included
RECURSIVE SplitFrom(_, _, _)
SplitFrom(s, i, cur) ==
  IF i > Len(s) THEN <<cur>>
  ELSE IF s[i] = "," THEN <<cur>> \o SplitFrom(s, i + 1, <<>>)
  ELSE SplitFrom(s, i + 1, Append(cur, s[i]))

Split(s) == SplitFrom(s, 1, <<>>)

\* s < t on strings of code units (JS compares strings lexicographically)
RECURSIVE StrLess(_, _)
StrLess(s, t) ==
  IF t = <<>> THEN FALSE
  ELSE IF s = <<>> THEN TRUE
  ELSE IF Head(s) # Head(t) THEN Head(s) < Head(t)
  ELSE StrLess(Tail(s), Tail(t))

\* ObjectId.prototype.toString: the identifier as the string a request carries
IdToString(id) == <<"id", id>>

\* the strings a request may carry as :exp_id / :edu_id
IdParams == {IdToString(i) : i \in 1..MaxIds} \cup {<<"id", 0>>}

\* --------------------------------------------------------- normalize-url
Schemes == {"http://", "https://"}
Hosts == {"acme.com", "yt.com"}

\* the default protocol is prepended to a link that has none
WithScheme(u) ==
  IF u = <<>> THEN u
  ELSE IF Head(u) \in Schemes THEN u
  ELSE IF Head(u) = "//" THEN <<"http://">> \o Tail(u)
  ELSE <<"http://">> \o u

\* normalize(u) throws on undefined and on what does not parse as a URL
CanNormalize(u) ==
  /\ u # UndefinedSeq
  /\ Len(WithScheme(u)) >= 2
  /\ WithScheme(u)[2] \in Hosts

\* normalize(u, { forceHttps: true }): https, no default port, no trailing slash
RECURSIVE StripRest(_)
StripRest(rest) ==
  IF rest = <<>> THEN <<>>
  ELSE IF Head(rest) \in {":80", ":443"} THEN StripRest(Tail(rest))
  ELSE IF rest = <<"/">> THEN <<>>
  ELSE <<Head(rest)>> \o StripRest(Tail(rest))

Normalize(u) ==
  <<"https://", WithScheme(u)[2]>> \o StripRest(SubSeq(WithScheme(u), 3, Len(WithScheme(u))))

\* ---------------------------------------------------------- request bodies
\* the bodies of POST /
PostBodies == <<
  [company |-> "Acme", website |-> <<"acme.com">>, location |-> Undefined,
   status |-> "Developer", skills |-> [isArray |-> FALSE, val |-> <<"a", ",", " ", "b", " ", ",", "c">>],
   bio |-> "bio1", githubusername |-> Undefined,
   youtube |-> <<"http://", "yt.com", "/">>, twitter |-> UndefinedSeq, instagram |-> UndefinedSeq,
   linkedin |-> UndefinedSeq, facebook |-> <<>>],
  [company |-> Undefined, website |-> <<>>, location |-> Undefined,
   status |-> "Designer", skills |-> [isArray |-> TRUE, val |-> << <<"j", "s">>, <<"c", "s", "s">> >>],
   bio |-> Undefined, githubusername |-> Undefined,
   youtube |-> UndefinedSeq, twitter |-> UndefinedSeq, instagram |-> UndefinedSeq,
   linkedin |-> UndefinedSeq, facebook |-> UndefinedSeq],
  [company |-> "Acme", website |-> <<>>, location |-> Undefined,
   status |-> "", skills |-> [isArray |-> FALSE, val |-> <<"a">>],
   bio |-> Undefined, githubusername |-> Undefined,
   youtube |-> UndefinedSeq, twitter |-> UndefinedSeq, instagram |-> UndefinedSeq,
   linkedin |-> UndefinedSeq, facebook |-> UndefinedSeq],
  [company |-> "Acme", website |-> UndefinedSeq, location |-> Undefined,
   status |-> "Developer", skills |-> [isArray |-> FALSE, val |-> <<"a">>],
   bio |-> Undefined, githubusername |-> Undefined,
   youtube |-> UndefinedSeq, twitter |-> UndefinedSeq, instagram |-> UndefinedSeq,
   linkedin |-> UndefinedSeq, facebook |-> UndefinedSeq],
  [company |-> "Acme", website |-> <<>>, location |-> Undefined,
   status |-> "Developer", skills |-> [isArray |-> FALSE, val |-> UndefinedSeq],
   bio |-> Undefined, githubusername |-> Undefined,
   youtube |-> UndefinedSeq, twitter |-> UndefinedSeq, instagram |-> UndefinedSeq,
   linkedin |-> UndefinedSeq, facebook |-> UndefinedSeq],
  [company |-> "Acme", website |-> <<>>, location |-> Undefined,
   status |-> Undefined, skills |-> [isArray |-> FALSE, val |-> <<>>],
   bio |-> Undefined, githubusername |-> Undefined,
   youtube |-> UndefinedSeq, twitter |-> UndefinedSeq, instagram |-> UndefinedSeq,
   linkedin |-> UndefinedSeq, facebook |-> UndefinedSeq],
  [company |-> "Acme", website |-> <<>>, location |-> Undefined,
   status |-> "Developer", skills |-> [isArray |-> FALSE, val |-> <<"a">>],
   bio |-> Undefined, githubusername |-> Undefined,
   youtube |-> <<"http://">>, twitter |-> UndefinedSeq, instagram |-> UndefinedSeq,
   linkedin |-> UndefinedSeq, facebook |-> UndefinedSeq]
>>

\* "/" in a date string: a code unit that sorts below the digits
Slash == -1

\* the bodies of PUT /experience (dates are strings of digits and separators)
ExpBodies == <<
  [title |-> "Engineer", company |-> "Acme", location |-> Undefined,
   from |-> <<2, 0, 2, 1>>, to |-> <<>>, current |-> Undefined, description |-> Undefined],
  [title |-> "Lead", company |-> "Initech", location |-> Undefined,
   from |-> <<2, 0, 1, 9>>, to |-> <<2, 0, 2, 0>>, current |-> Undefined, description |-> Undefined],
  [title |-> "Intern", company |-> "Acme", location |-> Undefined,
   from |-> <<2, 0, 2, 0>>, to |-> <<2, 0, 1, 9>>, current |-> Undefined, description |-> Undefined],
  [title |-> Undefined, company |-> "", location |-> Undefined,
   from |-> <<>>, to |-> <<>>, current |-> Undefined, description |-> Undefined]
>>

\* the bodies of PUT /education
EduBodies == <<
  [school |-> "MIT", degree |-> "BSc", fieldofstudy |-> "CS",
   from |-> <<2, 0, 1, 5>>, to |-> <<2, 0, 1, 9>>, current |-> Undefined, description |-> Undefined],
  [school |-> "", degree |-> "MSc", fieldofstudy |-> "CS",
   from |-> <<2, 0, 1, 9>>, to |-> <<>>, current |-> Undefined, description |-> Undefined],
  [school |-> "MIT", degree |-> "MSc", fieldofstudy |-> "CS",
   from |-> <<0, 1, Slash, 0, 1, Slash, 2, 0, 2, 0>>,
   to |-> <<1, 2, Slash, 0, 1, Slash, 2, 0, 1, 9>>,
   current |-> Undefined, description |-> Undefined]
>>

\* the bodies of PUT /experience/:exp_id
PatchBodies == <<
  [title |-> "Manager", company |-> "Globex", location |-> Undefined,
   from |-> <<2, 0, 2, 2>>, to |-> <<>>, current |-> Undefined, description |-> Undefined]
>>

\* the bodies the writing routes are explored with in full: the others are turned
\* away, or differ only in the form of their dates
PostSample == {1, 2, 3, 4}

ExpSample == {1, 2, 3}

EduSample == {1, 2}

Kinds == {"experience", "education"}

Sample(kind) == IF kind = "experience" THEN ExpSample ELSE EduSample

Bodies(kind) == IF kind = "experience" THEN ExpBodies ELSE EduBodies

\* ------------------------------------------------------------------- state
VARIABLES
  profiles,   \* the Profile collection: a set of documents
  users,      \* the User collection: the identities that have an account
  posts,      \* the Post collection
  nextId,     \* the next sub-document identifier the store generates
  nextDoc,    \* the next Profile document identifier the store generates
  started,    \* requests started so far
  req         \* per client: the request it runs, and a summary of its last one

vars == <<profiles, users, posts, nextId, nextDoc, started, req>>

\* ------------------------------------------------------------- documents
NoSocial ==
  [youtube |-> UndefinedSeq, twitter |-> UndefinedSeq, instagram |-> UndefinedSeq,
   linkedin |-> UndefinedSeq, facebook |-> UndefinedSeq]

\* what findOne answers when no document matches
NoDoc ==
  [id |-> 0, user |-> "none", company |-> Undefined, location |-> Undefined,
   website |-> UndefinedSeq, bio |-> Undefined, skills |-> <<>>, status |-> Undefined,
   githubusername |-> Undefined, social |-> NoSocial, experience |-> <<>>, education |-> <<>>]

\* the document an upsert inserts when its filter matches nothing
NewDoc(id, u) == [NoDoc EXCEPT !.id = id, !.user = u]

\* the scalar and social fields of a document: what POST / writes
Scalars(d) ==
  [user |-> d.user, company |-> d.company, location |-> d.location, website |-> d.website,
   bio |-> d.bio, skills |-> d.skills, status |-> d.status,
   githubusername |-> d.githubusername, social |-> d.social]

List(d, kind) == IF kind = "experience" THEN d.experience ELSE d.education

WithList(d, kind, list) ==
  IF kind = "experience" THEN [d EXCEPT !.experience = list] ELSE [d EXCEPT !.education = list]

Ids(list) == {list[i].id : i \in 1..Len(list)}

\* ------------------------------------------------------- POST / (upsert)
\* check("status").not().isEmpty(), check("skills").not().isEmpty()
SkillsIsEmpty(skills) ==
  IF skills.isArray THEN \E i \in 1..Len(skills.val) : skills.val[i] = <<>>
  ELSE skills.val \in {<<>>, UndefinedSeq}

PostErrors(body) ==
  {f \in {"status", "skills"} :
     \/ f = "status" /\ body.status \in {"", Undefined}
     \/ f = "skills" /\ SkillsIsEmpty(body.skills)}

\* skills.split(",").map((skill) => " " + skill.trim())
MapSkills(parts) == [i \in 1..Len(parts) |-> <<" ">> \o Trim(parts[i])]

SkillsField(skills) ==
  IF skills.isArray THEN skills.val ELSE MapSkills(Split(skills.val))

\* website === "" ? "" : normalize(website, { forceHttps: true })
WebsiteThrows(website) == website # <<>> /\ ~CanNormalize(website)

WebsiteField(website) == IF website = <<>> THEN <<>> ELSE Normalize(website)

\* if (value && value.length > 0) socialfields[key] = normalize(value, ...)
SocialThrows(value) == value # UndefinedSeq /\ Len(value) > 0 /\ ~CanNormalize(value)

SocialField(value) ==
  IF value # UndefinedSeq /\ Len(value) > 0 THEN Normalize(value) ELSE value

\* building profileFields throws, outside the handler's try block
BuildThrows(body) ==
  \/ WebsiteThrows(body.website)
  \/ \E v \in {body.youtube, body.twitter, body.instagram, body.linkedin, body.facebook} :
       SocialThrows(v)

ProfileFields(u, body) ==
  [user |-> u, company |-> body.company, location |-> body.location,
   website |-> WebsiteField(body.website), bio |-> body.bio,
   skills |-> SkillsField(body.skills), status |-> body.status,
   githubusername |-> body.githubusername,
   social |-> [youtube |-> SocialField(body.youtube), twitter |-> SocialField(body.twitter),
               instagram |-> SocialField(body.instagram), linkedin |-> SocialField(body.linkedin),
               facebook |-> SocialField(body.facebook)]]

\* a $set that writes only the fields the payload supplies
SetSuppliedFields(d, pf) ==
  [d EXCEPT !.user = pf.user,
            !.company = IF pf.company = Undefined THEN @ ELSE pf.company,
            !.location = IF pf.location = Undefined THEN @ ELSE pf.location,
            !.website = pf.website,
            !.bio = IF pf.bio = Undefined THEN @ ELSE pf.bio,
            !.skills = pf.skills, !.status = pf.status,
            !.githubusername = IF pf.githubusername = Undefined THEN @ ELSE pf.githubusername,
            !.social = [k \in DOMAIN pf.social |->
                          IF pf.social[k] = UndefinedSeq THEN @[k] ELSE pf.social[k]]]

\* an update that appends the skills to the stored ones
PushSkills(d, pf) ==
  [d EXCEPT !.user = pf.user, !.company = pf.company, !.location = pf.location,
            !.website = pf.website, !.bio = pf.bio, !.skills = d.skills \o pf.skills,
            !.status = pf.status, !.githubusername = pf.githubusername,
            !.social = pf.social]

\* a replacement of the whole document by profileFields
ReplaceDocument(d, pf) ==
  [d EXCEPT !.user = pf.user, !.company = pf.company, !.location = pf.location,
            !.website = pf.website, !.bio = pf.bio, !.skills = pf.skills,
            !.status = pf.status, !.githubusername = pf.githubusername,
            !.social = pf.social, !.experience = <<>>, !.education = <<>>]

\* { $set: profileFields }: every key of profileFields is written, the lists are not
SetProfileFields(d, pf) ==
  [d EXCEPT !.user = pf.user, !.company = pf.company, !.location = pf.location,
            !.website = pf.website, !.bio = pf.bio, !.skills = pf.skills,
            !.status = pf.status, !.githubusername = pf.githubusername,
            !.social = pf.social]

\* a filter on the document's own identifier instead of its owner
FilterById(d, u) == IdToString(d.id) = <<u>>

\* a findOne whose filter names no owner
AnyDocument(d, u) == TRUE

\* { user: req.user.id }: the filter of the owner's reads and writes
OwnerFilter(d, u) == d.user = u

Matching(u) == {d \in profiles : OwnerFilter(d, u)}

\* ------------------------------------------- PUT /experience, /education
\* .not().isEmpty() on a field that is absent or ""
IsEmpty(v) == v \in {"", Undefined}

\* .custom((value, { req }) => (req.body.to ? value < req.body.to : true))
FromBeforeTo(body) == IF body.to # <<>> THEN StrLess(body.from, body.to) ELSE TRUE

ExpErrors(body) ==
  {f \in {"title", "company", "from"} :
     \/ f = "title" /\ IsEmpty(body.title)
     \/ f = "company" /\ IsEmpty(body.company)
     \/ f = "from" /\ (body.from = <<>> \/ ~FromBeforeTo(body))}

EduErrors(body) ==
  {f \in {"school", "degree", "fieldofstudy", "from"} :
     \/ f = "school" /\ IsEmpty(body.school)
     \/ f = "degree" /\ IsEmpty(body.degree)
     \/ f = "fieldofstudy" /\ IsEmpty(body.fieldofstudy)
     \/ f = "from" /\ (body.from = <<>> \/ ~FromBeforeTo(body))}

SubdocErrors(kind, body) == IF kind = "experience" THEN ExpErrors(body) ELSE EduErrors(body)

\* newExp / newEdu as the list casts it: the body's fields under a fresh identifier
NewExp(id, body) ==
  [id |-> id, title |-> body.title, company |-> body.company, location |-> body.location,
   from |-> body.from, to |-> body.to, current |-> body.current,
   description |-> body.description]

NewEdu(id, body) ==
  [id |-> id, school |-> body.school, degree |-> body.degree,
   fieldofstudy |-> body.fieldofstudy, from |-> body.from, to |-> body.to,
   current |-> body.current, description |-> body.description]

NewEntry(kind, id, body) == IF kind = "experience" THEN NewExp(id, body) ELSE NewEdu(id, body)

\* Array.prototype.push: the entry goes to the tail
Push(list, entry) == Append(list, entry)

\* profile.experience.unshift(newExp): the entry goes to the head
Unshift(list, entry) == <<entry>> \o list

\* a filter that compares the identifier object itself with the string
FilterByObject(list, param) == SelectSeq(list, LAMBDA e : <<e.id>> # param)

\* a filter with the test the wrong way round
FilterKeepMatching(list, param) == SelectSeq(list, LAMBDA e : IdToString(e.id) = param)

\* .filter((exp) => exp._id.toString() !== req.params.exp_id)
RECURSIVE FilterOut(_, _)
FilterOut(list, param) ==
  IF list = <<>> THEN <<>>
  ELSE IF IdToString(Head(list).id) # param
       THEN <<Head(list)>> \o FilterOut(Tail(list), param)
       ELSE FilterOut(Tail(list), param)

\* the Profile schema: a unique index on the owner identity
NoOwnerIndex == FALSE

OwnerIndexUnique == TRUE

\* the Profile schema: save() as a compare-and-set on the document version
VersionChecked == FALSE

\* a save that re-reads the stored list and applies the change to it
SaveMerged(stored, doc, kind, newId) ==
  IF newId # 0
  THEN WithList(stored, kind, <<List(doc, kind)[1]>> \o List(stored, kind))
  ELSE WithList(stored, kind, List(doc, kind))

\* profile.save(): the modified list of the loaded document replaces the stored
\* one, whatever was written to it since the load
SaveWrites(stored, doc, kind, newId) == WithList(stored, kind, List(doc, kind))

\* ------------------------------------------------ PUT /experience/:exp_id
\* { experience: { $elemMatch: { _id: req.params.exp_id } } }
ElemMatch(d, param) == \E i \in 1..Len(d.experience) : IdToString(d.experience[i].id) = param

\* a $set of "experience.0.<field>": the head of the list takes the body's fields
SetHead(list, param, body) == [list EXCEPT ![1] = NewExp(list[1].id, body)]

\* $set of "experience.$.<field>": the first matching entry takes the body's fields
SetMatched(list, param, body) ==
  LET i == CHOOSE j \in 1..Len(list) :
             /\ IdToString(list[j].id) = param
             /\ \A k \in 1..(j - 1) : IdToString(list[k].id) # param
  IN [list EXCEPT ![i] = NewExp(list[i].id, body)]

\* ------------------------------------------------------------- DELETE /
\* a handler that removes the profile before the posts
ProfileFirst == <<"profile", "posts", "user">>

\* Post.deleteMany, Profile.findOneAndRemove, User.findOneAndRemove, in this order
DeleteSteps == <<"posts", "profile", "user">>

\* ------------------------------------------------- GET /user/:user_id
HexDigits == {"0", "1", "2", "3", "4", "5", "6", "7", "8", "9", "a", "b", "c", "d", "e", "f"}

\* the 24 hex digits of an account's identifier
UserIdString(u) == [i \in 1..24 |-> IF u = "u1" THEN "a" ELSE "b"]

\* the strings a request may carry as :user_id: the identifiers of the accounts,
\* an identifier of no account, "not-an-id", 12 characters, 24 that are not hex
UserIdParams ==
  {UserIdString(u) : u \in Users}
    \cup {[i \in 1..24 |-> "c"], <<"n", "o", "t", "-", "a", "n", "-", "i", "d">>,
          [i \in 1..12 |-> "z"], [i \in 1..24 |-> "z"]}

\* a check that lets every string through
AlwaysValid(s) == TRUE

\* mongoose.Types.ObjectId.isValid on a string: 12 characters, or 24 hex digits
IsValid(s) == Len(s) = 12 \/ (Len(s) = 24 /\ \A i \in 1..24 : s[i] \in HexDigits)

\* { user: user_id }: the documents of the identity the string is cast to
MatchingId(s) == {d \in profiles : UserIdString(d.user) = s}

\* ----------------------------------------------- GET /github/:username
\* what the third party does with the request: the repositories, no connection,
\* 404 for the handle, 403 for the rate limit, a 200 whose body is not JSON
Outcomes == {"repos", "network", "unknown", "ratelimit", "malformed"}

\* axios.get rejects on a network error and on a status outside 2xx; a body
\* that does not parse as JSON is handed on as the text it is
AxiosRejects(outcome) == outcome \in {"network", "unknown", "ratelimit"}

\* --------------------------------------------------------------- requests
NoPrev ==
  [op |-> "none", user |-> "none", kind |-> "none", body |-> 0, newId |-> 0,
   before |-> <<>>, after |-> <<>>, fresh |-> FALSE, wrote |-> Scalars(NoDoc)]

IdleReq ==
  [pc |-> "idle", op |-> "none", user |-> "none", kind |-> "none", body |-> 0,
   param |-> <<>>, found |-> "none", snap |-> NoDoc, doc |-> NoDoc, newId |-> 0,
   before |-> <<>>, after |-> <<>>, fresh |-> FALSE, removed |-> <<>>, status |-> 0,
   msg |-> "none", cause |-> "none", wrote |-> Scalars(NoDoc), prev |-> NoPrev]

\* what a client remembers of the request it has just finished
Summary(r) ==
  IF r.op \notin {"add", "upsert"} \/ r.status # 200 THEN NoPrev ELSE
  [op |-> r.op, user |-> r.user, kind |-> r.kind, body |-> r.body, newId |-> r.newId,
   before |-> r.before, after |-> r.after, fresh |-> r.fresh, wrote |-> r.wrote]

\* the auth middleware has let the request of identity u through
CanStart(c, u) ==
  /\ req[c].pc \in {"idle", "done"}
  /\ c = "c2" => req["c1"].pc \notin {"idle", "done"}
  /\ u \in users
  /\ started < MaxRequests

\* an identifier string a client can send: one the store has generated, or another
Known(param) == param \in {IdToString(i) : i \in 0..(nextId - 1)}

Begin(c, op, u, kind, body, param) ==
  [IdleReq EXCEPT !.op = op, !.user = u, !.kind = kind, !.body = body, !.param = param,
                  !.prev = Summary(req[c])]

Respond(r, status, msg) ==
  [r EXCEPT !.pc = "done", !.status = status, !.msg = msg, !.snap = NoDoc, !.doc = NoDoc]

\* the handler's catch block: the error is logged and answered as a server error
Caught(r, cause, msg) == [Respond(r, 500, msg) EXCEPT !.cause = cause]

\* the text of the catch block: res.status(500).send("Server Error") in the adds,
\* res.status(500).json({ msg: "Server error" }) in the removals
ErrorText(r) == IF r.op = "remove" THEN "Server error" ELSE "Server Error"

InFlight(pcs) == Cardinality({c \in Slots : req[c].pc \in pcs})

\* ------------------------------------------------------------------ Init
\* the profiles as an earlier POST / and the PUT /experience of each owner left them
SeedProfiles ==
  {[SetProfileFields(NewDoc(1, "u1"), ProfileFields("u1", PostBodies[2]))
      EXCEPT !.experience = Unshift(Unshift(<<>>, NewExp(1, ExpBodies[1])), NewExp(2, ExpBodies[2]))],
   [SetProfileFields(NewDoc(2, "u2"), ProfileFields("u2", PostBodies[2]))
      EXCEPT !.experience = Unshift(<<>>, NewExp(3, ExpBodies[2]))]}

Init ==
  /\ users = Users
  /\ posts = {[id |-> 1, user |-> "u1"], [id |-> 2, user |-> "u1"], [id |-> 3, user |-> "u2"]}
  /\ \/ profiles = {} /\ nextId = 1 /\ nextDoc = 1
     \/ profiles = SeedProfiles /\ nextId = 4 /\ nextDoc = 3
  /\ started = 0
  /\ req = [c \in Slots |-> IdleReq]

\* --------------------------------------------------------------- POST /
\* the handler up to its await: validation, then profileFields
PostProfile(c, u, b) ==
  /\ CanStart(c, u)
  /\ nextDoc + InFlight({"upsert", "insert"}) <= MaxDocs
  /\ started' = started + 1
  /\ LET r == Begin(c, "upsert", u, "none", b, <<>>) IN
       req' = [req EXCEPT ![c] =
                 IF PostErrors(PostBodies[b]) # {} THEN Respond(r, 400, "errors")
                 ELSE IF BuildThrows(PostBodies[b]) THEN [r EXCEPT !.pc = "hung"]
                 ELSE [r EXCEPT !.pc = "upsert"]]
  /\ UNCHANGED <<profiles, users, posts, nextId, nextDoc>>

\* the document the filter matches takes the $set, and the handler answers with it
Updated(c, d, found) ==
  LET r == req[c]
      new == SetProfileFields(d, ProfileFields(r.user, PostBodies[r.body]))
  IN /\ profiles' = (profiles \ {d}) \cup {new}
     /\ req' = [req EXCEPT ![c] =
                  Respond([r EXCEPT !.found = found, !.wrote = Scalars(new)], 200, "profile")]

\* Profile.findOneAndUpdate(filter, { $set }, { new: true, upsert: true }) reaches
\* the store: a matching document is updated in one step, and when there is none
\* the store goes on to insert one
PostProfileStore(c) ==
  /\ req[c].pc = "upsert"
  /\ \E ok \in BOOLEAN :
       IF ~ok
       THEN /\ req' = [req EXCEPT ![c] = Caught(req[c], "store", "Server Error")]
            /\ UNCHANGED profiles
       ELSE IF Matching(req[c].user) # {}
       THEN \E d \in Matching(req[c].user) : Updated(c, d, "doc")
       ELSE /\ req' = [req EXCEPT ![c].pc = "insert", ![c].found = "null"]
            /\ UNCHANGED profiles
  /\ UNCHANGED <<users, posts, nextId, nextDoc, started>>

\* the insert of the upsert: under the unique index an owner who has a document
\* by now makes it a duplicate key, which the store retries as an update or
\* reports as an error
PostProfileInsert(c) ==
  /\ req[c].pc = "insert"
  /\ LET r == req[c]
         owned == {d \in profiles : d.user = r.user}
         new == SetProfileFields(NewDoc(nextDoc, r.user), ProfileFields(r.user, PostBodies[r.body]))
     IN IF OwnerIndexUnique /\ owned # {}
        THEN /\ \E retry \in BOOLEAN :
                  IF retry /\ Matching(r.user) # {}
                  THEN \E d \in Matching(r.user) : Updated(c, d, "null")
                  ELSE /\ req' = [req EXCEPT ![c] = Caught(r, "duplicate", "Server Error")]
                       /\ UNCHANGED profiles
             /\ UNCHANGED nextDoc
        ELSE /\ profiles' = profiles \cup {new}
             /\ nextDoc' = nextDoc + 1
             /\ req' = [req EXCEPT ![c] = Respond([r EXCEPT !.wrote = Scalars(new)], 200, "profile")]
  /\ UNCHANGED <<users, posts, nextId, started>>

\* ------------------------------------------- PUT /experience, /education
\* the handler up to its first await: validation
PutSubdoc(c, u, kind, b) ==
  /\ CanStart(c, u)
  /\ b \in 1..Len(Bodies(kind))
  /\ nextId + InFlight({"find"}) <= MaxIds
  /\ started' = started + 1
  /\ LET r == Begin(c, "add", u, kind, b, <<>>) IN
       req' = [req EXCEPT ![c] =
                 IF SubdocErrors(kind, Bodies(kind)[b]) # {} THEN Respond(r, 400, "errors")
                 ELSE [r EXCEPT !.pc = "find"]]
  /\ UNCHANGED <<profiles, users, posts, nextId, nextDoc>>

\* DELETE /experience/:exp_id, /education/:edu_id: nothing precedes the first await
DeleteSubdoc(c, u, kind, param) ==
  /\ CanStart(c, u)
  /\ Known(param)
  /\ started' = started + 1
  /\ req' = [req EXCEPT ![c] = [Begin(c, "remove", u, kind, 0, param) EXCEPT !.pc = "find"]]
  /\ UNCHANGED <<profiles, users, posts, nextId, nextDoc>>

\* the loaded document after the handler has changed its list
Changed(r, d, id) ==
  IF r.op = "add"
  THEN WithList(d, r.kind, Unshift(List(d, r.kind), NewEntry(r.kind, id, Bodies(r.kind)[r.body])))
  ELSE WithList(d, r.kind, FilterOut(List(d, r.kind), r.param))

\* Profile.findOne({ user }) answers; the handler changes the list of the loaded
\* document and calls save().  A null answer makes the list access throw.
FindOne(c) ==
  /\ req[c].pc = "find"
  /\ LET r == req[c] IN
     \E ok \in BOOLEAN :
       IF ~ok
       THEN /\ req' = [req EXCEPT ![c] = Caught(r, "store", ErrorText(r))]
            /\ UNCHANGED nextId
       ELSE IF Matching(r.user) = {}
       THEN /\ req' = [req EXCEPT ![c] = Caught([r EXCEPT !.found = "null"], "null", ErrorText(r))]
            /\ UNCHANGED nextId
       ELSE \E d \in Matching(r.user) :
              /\ req' = [req EXCEPT ![c] =
                           [r EXCEPT !.pc = "save", !.found = "doc", !.snap = d,
                                     !.newId = IF r.op = "add" THEN nextId ELSE 0,
                                     !.doc = Changed(r, d, nextId)]]
              /\ nextId' = IF r.op = "add" THEN nextId + 1 ELSE nextId
  /\ UNCHANGED <<profiles, users, posts, nextDoc, started>>

\* save() is applied to the stored document, and the handler answers
Save(c) ==
  /\ req[c].pc = "save"
  /\ LET r == req[c]
         stored == {d \in profiles : d.id = r.doc.id}
     IN \E ok \in BOOLEAN :
          IF ~ok \/ stored = {}
          THEN /\ req' = [req EXCEPT ![c] = Caught(r, "store", ErrorText(r))]
               /\ UNCHANGED profiles
          ELSE \E d \in stored :
                 IF VersionChecked /\ List(d, r.kind) # List(r.snap, r.kind)
                 THEN /\ req' = [req EXCEPT ![c] = Caught(r, "version", ErrorText(r))]
                      /\ UNCHANGED profiles
                 ELSE /\ profiles' = (profiles \ {d}) \cup {SaveWrites(d, r.doc, r.kind, r.newId)}
                      /\ req' = [req EXCEPT ![c] =
                                   Respond([r EXCEPT !.before = List(d, r.kind),
                                                     !.fresh = (List(d, r.kind) = List(r.snap, r.kind)),
                                                     !.after = List(SaveWrites(d, r.doc, r.kind, r.newId),
                                                                    r.kind)],
                                           200, "profile")]
  /\ UNCHANGED <<users, posts, nextId, nextDoc, started>>

\* ------------------------------------------------ PUT /experience/:exp_id
PutExperienceById(c, u, param, b) ==
  /\ CanStart(c, u)
  /\ Known(param)
  /\ started' = started + 1
  /\ req' = [req EXCEPT ![c] = [Begin(c, "update", u, "experience", b, param) EXCEPT !.pc = "update"]]
  /\ UNCHANGED <<profiles, users, posts, nextId, nextDoc>>

\* Profile.findOneAndUpdate(elemMatch, { $set: experience.$ }, { new: true }) and
\* res.json(profile), which is res.json(null) when no document matched
PutExperienceByIdStore(c) ==
  /\ req[c].pc = "update"
  /\ LET r == req[c]
         hit == {d \in profiles : ElemMatch(d, r.param)}
     IN \E ok \in BOOLEAN :
          IF ~ok
          THEN /\ req' = [req EXCEPT ![c] = Caught(r, "store", "Server error")]
               /\ UNCHANGED profiles
          ELSE IF hit = {}
          THEN /\ req' = [req EXCEPT ![c] = Respond([r EXCEPT !.found = "null"], 200, "null")]
               /\ UNCHANGED profiles
          ELSE \E d \in hit :
                 LET new == [d EXCEPT !.experience =
                               SetMatched(d.experience, r.param, PatchBodies[r.body])]
                 IN /\ profiles' = (profiles \ {d}) \cup {new}
                    /\ req' = [req EXCEPT ![c] =
                                 Respond([r EXCEPT !.found = "doc", !.before = d.experience,
                                                   !.after = new.experience],
                                         200, "profile")]
  /\ UNCHANGED <<users, posts, nextId, nextDoc, started>>

\* ------------------------------------------------------------- DELETE /
DeleteProfile(c, u) ==
  /\ CanStart(c, u)
  /\ started' = started + 1
  /\ req' = [req EXCEPT ![c] = [Begin(c, "deleteOwner", u, "none", 0, <<>>) EXCEPT !.pc = "delete"]]
  /\ UNCHANGED <<profiles, users, posts, nextId, nextDoc>>

\* the next removal of the handler is applied, or fails and ends the handler
DeleteStep(c) ==
  /\ req[c].pc = "delete"
  /\ LET r == req[c]
         step == DeleteSteps[Len(r.removed) + 1]
         r2 == [r EXCEPT !.removed = Append(@, step)]
     IN \E ok \in BOOLEAN :
          IF ~ok
          THEN /\ req' = [req EXCEPT ![c] = Caught(r, "store", "Server Error")]
               /\ UNCHANGED <<profiles, users, posts>>
          ELSE /\ posts' = IF step = "posts" THEN {p \in posts : p.user # r.user} ELSE posts
               /\ profiles' = IF step = "profile" /\ Matching(r.user) # {}
                              THEN profiles \ {CHOOSE d \in Matching(r.user) : TRUE}
                              ELSE profiles
               /\ users' = IF step = "user" THEN users \ {r.user} ELSE users
               /\ req' = [req EXCEPT ![c] =
                            IF Len(r2.removed) = Len(DeleteSteps)
                            THEN Respond(r2, 200, "User deleted") ELSE r2]
  /\ UNCHANGED <<nextId, nextDoc, started>>

\* ---------------------------------------------- GET /me, /user/:user_id
\* a public route takes the request of any client
Accepts(c) ==
  /\ req[c].pc \in {"idle", "done"}
  /\ c = "c2" => req["c1"].pc \notin {"idle", "done"}
  /\ started < MaxRequests

GetMe(c, u) ==
  /\ CanStart(c, u)
  /\ started' = started + 1
  /\ req' = [req EXCEPT ![c] = [Begin(c, "getMe", u, "none", 0, <<>>) EXCEPT !.pc = "read"]]
  /\ UNCHANGED <<profiles, users, posts, nextId, nextDoc>>

\* the handler up to its await: the identifier check comes first
GetByUserId(c, param) ==
  /\ Accepts(c)
  /\ started' = started + 1
  /\ LET r == Begin(c, "getById", "none", "none", 0, param) IN
       req' = [req EXCEPT ![c] =
                 IF ~IsValid(param) THEN Respond(r, 400, "Invalid user ID")
                 ELSE [r EXCEPT !.pc = "read"]]
  /\ UNCHANGED <<profiles, users, posts, nextId, nextDoc>>

\* Profile.findOne(...).populate(...) answers, and the handler with it
ReadStore(c) ==
  /\ req[c].pc = "read"
  /\ LET r == req[c]
         hit == IF r.op = "getMe" THEN Matching(r.user) ELSE MatchingId(r.param)
     IN \E ok \in BOOLEAN :
          req' = [req EXCEPT ![c] =
                    IF ~ok
                    THEN Caught(r, "store", IF r.op = "getMe" THEN "Server Error" ELSE "Server error")
                    ELSE IF hit = {}
                    THEN Respond([r EXCEPT !.found = "null"], 400,
                                 IF r.op = "getMe" THEN "There is no profile for this user"
                                 ELSE "Profile not found")
                    ELSE Respond([r EXCEPT !.found = "doc"], 200, "profile")]
  /\ UNCHANGED <<profiles, users, posts, nextId, nextDoc, started>>

\* ----------------------------------------------- GET /github/:username
\* the handler up to its await: axios.get(uri, { headers }) is sent
GetGithub(c) ==
  /\ Accepts(c)
  /\ started' = started + 1
  /\ req' = [req EXCEPT ![c] = [Begin(c, "github", "none", "none", 0, <<>>) EXCEPT !.pc = "github"]]
  /\ UNCHANGED <<profiles, users, posts, nextId, nextDoc>>

\* the third party answers, or the connection fails: the handler hands the data
\* on, or its catch block answers 404
GithubResponds(c, outcome) ==
  /\ req[c].pc = "github"
  /\ req' = [req EXCEPT ![c] =
               IF AxiosRejects(outcome)
               THEN [Respond(req[c], 404, "No Github profile found") EXCEPT !.cause = outcome]
               ELSE [Respond(req[c], 200, outcome) EXCEPT !.cause = outcome]]
  /\ UNCHANGED <<profiles, users, posts, nextId, nextDoc, started>>

\* ------------------------------------------------------------------ Next
\* the routes that write
Next ==
  \/ \E c \in Slots, u \in Users, b \in PostSample : PostProfile(c, u, b)
  \/ \E c \in Slots : PostProfileStore(c)
  \/ \E c \in Slots : PostProfileInsert(c)
  \/ \E c \in Slots, u \in Users, kind \in Kinds :
       \E b \in Sample(kind) : PutSubdoc(c, u, kind, b)
  \/ \E c \in Slots, u \in Users, kind \in Kinds, param \in IdParams : DeleteSubdoc(c, u, kind, param)
  \/ \E c \in Slots : FindOne(c)
  \/ \E c \in Slots : Save(c)
  \/ \E c \in Slots, u \in Users, param \in IdParams, b \in 1..Len(PatchBodies) :
       PutExperienceById(c, u, param, b)
  \/ \E c \in Slots : PutExperienceByIdStore(c)
  \/ \E c \in Slots, u \in Users : DeleteProfile(c, u)
  \/ \E c \in Slots : DeleteStep(c)

Spec == Init /\ [][Next]_vars

\* the reading routes, with the routes that create and remove what they read
ReadNext ==
  \/ \E c \in Slots, u \in Users, b \in PostSample : PostProfile(c, u, b)
  \/ \E c \in Slots : PostProfileStore(c)
  \/ \E c \in Slots : PostProfileInsert(c)
  \/ \E c \in Slots, u \in Users : DeleteProfile(c, u)
  \/ \E c \in Slots : DeleteStep(c)
  \/ \E c \in Slots, u \in Users : GetMe(c, u)
  \/ \E c \in Slots, param \in UserIdParams : GetByUserId(c, param)
  \/ \E c \in Slots : ReadStore(c)
  \/ \E c \in Slots : GetGithub(c)
  \/ \E c \in Slots, outcome \in Outcomes : GithubResponds(c, outcome)

ReadSpec == Init /\ [][ReadNext]_vars

\* every route, with every body
FullNext ==
  \/ Next
  \/ \E c \in Slots, u \in Users, b \in (1..Len(PostBodies)) \ PostSample : PostProfile(c, u, b)
  \/ \E c \in Slots, u \in Users, kind \in Kinds :
       \E b \in (1..Len(Bodies(kind))) \ Sample(kind) : PutSubdoc(c, u, kind, b)
  \/ \E c \in Slots, u \in Users : GetMe(c, u)
  \/ \E c \in Slots, param \in UserIdParams : GetByUserId(c, param)
  \/ \E c \in Slots : ReadStore(c)
  \/ \E c \in Slots : GetGithub(c)
  \/ \E c \in Slots, outcome \in Outcomes : GithubResponds(c, outcome)

FullSpec == Init /\ [][FullNext]_vars

\* the steps that wait for the store only: the store answers every call, and the
\* event loop runs the handler that awaits it
StoreStep(c) ==
  \/ PostProfileStore(c) \/ PostProfileInsert(c)
  \/ FindOne(c) \/ Save(c)
  \/ PutExperienceByIdStore(c)
  \/ DeleteStep(c)
  \/ ReadStore(c)

\* the third party owes the handler nothing: its answer is under no fairness
FairSpec == FullSpec /\ \A c \in Slots : WF_vars(StoreStep(c))

\* ================================================================ claims
\* the requests of a kind that have been answered
Done(c, op) == req[c].pc = "done" /\ req[c].op = op

Answered(c, op, status) == Done(c, op) /\ req[c].status = status

\* C1: in every reachable state there is at most one profile document per owner
\* identity, whatever upserts and deletions have run and however they interleaved.
AtMostOnePerOwner ==
  \A d1 \in profiles, d2 \in profiles : d1.user = d2.user => d1 = d2

\* two upserts of one identity that had no profile ran concurrently, and both succeeded
ConcurrentFirstUpserts ==
  /\ started = 2
  /\ \E u \in Users :
       /\ \A c \in Slots : Answered(c, "upsert", 200) /\ req[c].user = u /\ req[c].found = "null"
       /\ Cardinality({d \in profiles : d.user = u}) = 1

\* C2: the scalar and social fields of a stored aggregate are those of one payload,
\* applied whole; after two concurrent upserts of one identity have succeeded, they
\* are those of one of the two payloads.
UpsertResults ==
  {ProfileFields(u, PostBodies[b]) :
     u \in Users,
     b \in {i \in 1..Len(PostBodies) : PostErrors(PostBodies[i]) = {} /\ ~BuildThrows(PostBodies[i])}}

NoPartialMerge ==
  /\ \A d \in profiles : Scalars(d) \in UpsertResults
  /\ \A u \in Users :
       (\A c \in Slots : Answered(c, "upsert", 200) /\ req[c].user = u)
         => \A d \in profiles :
              d.user = u => \E c \in Slots :
                              Scalars(d) = ProfileFields(u, PostBodies[req[c].body])

\* two concurrent upserts of one identity, one payload omitting fields the other has
ConcurrentUpsertsDone ==
  /\ started = 2
  /\ \E u \in Users :
       /\ \A c \in Slots : Answered(c, "upsert", 200) /\ req[c].user = u
       /\ req["c1"].body = 1 /\ req["c2"].body = 2
       /\ \E d \in profiles : d.user = u /\ d.company = Undefined /\ d.status = "Designer"

\* C3: every element of a stored skills sequence is a non-empty string without
\* leading or trailing whitespace, and the delimited input "a, b ,c" is stored as
\* ["a", "b", "c"].
SkillsTrimmed ==
  /\ \A d \in profiles :
       \A i \in 1..Len(d.skills) : d.skills[i] # <<>> /\ Trim(d.skills[i]) = d.skills[i]
  /\ \A c \in Slots :
       Answered(c, "upsert", 200) /\ req[c].body = 1
         => \A d \in profiles :
              d.user = req[c].user /\ d.status = "Developer"
                => d.skills = << <<"a">>, <<"b">>, <<"c">> >>

\* C4: an add for an identity without a profile is answered as not found, not as
\* an unexpected failure (that it creates no profile is not in question: the
\* request never writes).
AddWithoutProfileIsNotFound ==
  \A c \in Slots :
    Done(c, "add") /\ req[c].found = "null" => req[c].status \in {400, 404}

\* the save of client c's request of kind op is applied in this step
Saved(c, op) ==
  /\ req[c].pc = "save" /\ req[c].op = op
  /\ req'[c].pc = "done" /\ req'[c].status = 200

\* client c's last request added the entry, no write came between its load and
\* its save, and the list is as that add left it
JustAdded(c) ==
  /\ req[c].prev.op = "add" /\ req[c].prev.fresh
  /\ req[c].prev.user = req[c].user /\ req[c].prev.kind = req[c].kind
  /\ List(req[c].snap, req[c].kind) = req[c].prev.after
  /\ req'[c].before = req[c].prev.after

\* the list of the document client c loaded, as the store holds it after the step
StoredList(c) ==
  List(CHOOSE d \in profiles' : d.id = req[c].snap.id, req[c].kind)

\* C5: after two sequential adds E1, E2 the list is E2, E1 and then the entries it
\* had before, in their order and under their identifiers.
HeadInsertion ==
  [][\A c \in Slots :
       Saved(c, "add") /\ JustAdded(c)
         => LET r == req[c]
                L == StoredList(c)
            IN /\ Len(L) = Len(r.prev.before) + 2
               /\ L[1] = NewEntry(r.kind, r.newId, Bodies(r.kind)[r.body])
               /\ L[2] = NewEntry(r.kind, r.prev.newId, Bodies(r.kind)[r.prev.body])
               /\ r.newId # r.prev.newId
               /\ SubSeq(L, 3, Len(L)) = r.prev.before]_vars

\* a client has added two entries in a row to a list that had entries
AddedTwice ==
  \E c \in Slots :
    /\ Answered(c, "add", 200)
    /\ req[c].prev.op = "add" /\ req[c].prev.fresh /\ req[c].prev.user = req[c].user
    /\ req[c].prev.kind = req[c].kind
    /\ req[c].before = req[c].prev.after
    /\ Len(req[c].prev.before) >= 1
    /\ Len(req[c].after) = Len(req[c].prev.before) + 2

\* C6: adding an entry and then removing it by its identifier, with nothing in
\* between, leaves the list as it was before the add.
AddThenRemove ==
  [][\A c \in Slots :
       Saved(c, "remove") /\ JustAdded(c) /\ req[c].param = IdToString(req[c].prev.newId)
         => StoredList(c) = req[c].prev.before]_vars

\* a client has added an entry to a list that had entries and removed it again
RemovedWhatWasAdded ==
  \E c \in Slots :
    /\ Answered(c, "remove", 200)
    /\ req[c].prev.op = "add" /\ req[c].prev.fresh /\ req[c].prev.user = req[c].user
    /\ req[c].prev.kind = req[c].kind
    /\ req[c].param = IdToString(req[c].prev.newId)
    /\ req[c].before = req[c].prev.after
    /\ Len(req[c].prev.before) >= 1
    /\ req[c].after = req[c].prev.before

\* C7: a removal takes out the entries whose identifier is the given one and keeps
\* every other entry in its place, leaves the other list alone, and succeeds with
\* the list unchanged when no entry has the identifier.
RemoveOnlyMatching ==
  /\ [](\A c \in Slots :
          Done(c, "remove") /\ req[c].found = "doc" /\ req[c].cause # "store"
            => req[c].status = 200)
  /\ [][\A c \in Slots :
          Saved(c, "remove") /\ List(req[c].snap, req[c].kind) = req'[c].before
            => LET r == req[c]
                   L == req'[c].before
                   keep == {i \in 1..Len(L) : IdToString(L[i].id) # r.param}
                   other == CHOOSE k \in Kinds : k # r.kind
                   old == CHOOSE d \in profiles : d.id = r.snap.id
                   new == CHOOSE d \in profiles' : d.id = r.snap.id
               IN /\ Len(StoredList(c)) = Cardinality(keep)
                  /\ \A i \in keep :
                       StoredList(c)[Cardinality({j \in keep : j <= i})] = L[i]
                  /\ keep = 1..Len(L) => StoredList(c) = L
                  /\ List(new, other) = List(old, other)
                  /\ Scalars(new) = Scalars(old)]_vars

\* one of several entries has been removed
RemovedOneOfMany ==
  \E c \in Slots :
    /\ Answered(c, "remove", 200)
    /\ Len(req[c].before) >= 2
    /\ Len(req[c].after) = Len(req[c].before) - 1
    /\ \E i \in 1..Len(req[c].before) : IdToString(req[c].before[i].id) = req[c].param

\* C8: an update whose identifier matches no entry is answered as not found, and
\* changes nothing.
UpdateUnknownIsNotFound ==
  \A c \in Slots :
    Done(c, "update") /\ req[c].found = "null" /\ req[c].cause = "none"
      => req[c].status \in {400, 404}

\* C9: the cascade removes the posts, then the profile, then the account; a step
\* that fails ends it with a failure answer, undoes nothing and is followed by no
\* further removal.
PostsOf(u) == {p \in posts : p.user = u}

CascadeOrder ==
  /\ [](\A c \in Slots :
          req[c].op = "deleteOwner"
            => /\ req[c].removed = SubSeq(<<"posts", "profile", "user">>, 1, Len(req[c].removed))
               /\ Len(req[c].removed) >= 1 => PostsOf(req[c].user) = {}
               /\ Len(req[c].removed) = 3 => req[c].user \notin users
               /\ req[c].pc = "done"
                    => \/ req[c].status = 200 /\ Len(req[c].removed) = 3
                       \/ req[c].status = 500 /\ Len(req[c].removed) < 3)
  /\ [][/\ \A u \in Users :
            /\ PostsOf(u)' # PostsOf(u)
                 => \E c \in Slots : /\ req[c].pc = "delete" /\ req[c].user = u
                                     /\ req[c].removed = <<>> /\ req'[c].removed = <<"posts">>
            /\ (\E d \in profiles : d.user = u /\ \A e \in profiles' : e.id # d.id)
                 => \E c \in Slots : /\ req[c].pc = "delete" /\ req[c].user = u
                                     /\ req[c].removed = <<"posts">>
                                     /\ req'[c].removed = <<"posts", "profile">>
            /\ u \in users /\ u \notin users'
                 => \E c \in Slots : /\ req[c].pc = "delete" /\ req[c].user = u
                                     /\ req[c].removed = <<"posts", "profile">>
                                     /\ req'[c].status = 200
         /\ \A c \in Slots :
              req[c].pc = "delete" /\ req'[c].status = 500
                => /\ UNCHANGED <<profiles, users, posts>>
                   /\ req'[c].removed = req[c].removed]_vars

\* a cascade has failed at the account: posts and profile are gone, the account is not
CascadeStoppedAtAccount ==
  \E c \in Slots :
    /\ Answered(c, "deleteOwner", 500)
    /\ req[c].removed = <<"posts", "profile">>
    /\ nextDoc = 3 /\ Matching(req[c].user) = {}
    /\ PostsOf(req[c].user) = {}
    /\ req[c].user \in users

\* C10: a save writes the list of the document the request loaded, with its change,
\* over whatever the store holds by then, and no save is refused for a write made
\* since the load: of two concurrent adds the later write wins.
LastWriteWins ==
  /\ [](\A c \in Slots : req[c].cause # "version")
  /\ [][\A c \in Slots :
          Saved(c, "add")
            => StoredList(c) =
                 <<NewEntry(req[c].kind, req[c].newId, Bodies(req[c].kind)[req[c].body])>>
                   \o List(req[c].snap, req[c].kind)]_vars

\* two concurrent adds have both succeeded and the list has lost the earlier entry
LostAddition ==
  \E c1 \in Slots, c2 \in Slots :
    /\ c1 # c2
    /\ Answered(c1, "add", 200) /\ Answered(c2, "add", 200)
    /\ req[c1].user = req[c2].user /\ req[c1].kind = req[c2].kind
    /\ req[c1].newId \in Ids(req[c2].before)
    /\ req[c1].newId \notin Ids(req[c2].after)
    /\ req[c2].newId \in Ids(req[c2].after)
    /\ \A d \in profiles : d.user = req[c2].user => List(d, req[c2].kind) = req[c2].after

\* the number a string of digits denotes
RECURSIVE Digits(_)
Digits(s) == IF s = <<>> THEN 0 ELSE 10 * Digits(SubSeq(s, 1, Len(s) - 1)) + s[Len(s)]

\* the day a date string denotes, as YYYYMMDD: "YYYY" is the first of January of
\* the year, "MM/DD/YYYY" the day it names
Instant(s) ==
  IF Len(s) = 4 THEN Digits(s) * 10000 + 101
  ELSE Digits(SubSeq(s, 7, 10)) * 10000 + Digits(SubSeq(s, 1, 2)) * 100 + Digits(SubSeq(s, 4, 5))

Missing(v) == v \in {"", Undefined}

\* the request breaks a precondition of its operation
ViolatesPreconditions(r) ==
  IF r.op = "upsert"
  THEN LET b == PostBodies[r.body] IN
         \/ Missing(b.status)
         \/ ~b.skills.isArray /\ b.skills.val \in {<<>>, UndefinedSeq}
  ELSE LET b == Bodies(r.kind)[r.body] IN
         \/ r.kind = "experience" /\ (Missing(b.title) \/ Missing(b.company))
         \/ r.kind = "education"
              /\ (Missing(b.school) \/ Missing(b.degree) \/ Missing(b.fieldofstudy))
         \/ b.from = <<>>
         \/ b.to # <<>> /\ ~(Instant(b.from) < Instant(b.to))

\* C11: an upsert or an add that breaks a precondition (a required field missing
\* or empty, or a to-date with a from-date that is not chronologically earlier) is
\* answered with the validation errors and never reaches the store.
PreconditionsEnforced ==
  \A c \in Slots :
    req[c].op \in {"upsert", "add"} /\ ViolatesPreconditions(req[c])
      => req[c].pc = "done" /\ req[c].status = 400 /\ req[c].msg = "errors"

\* C12: an upsert that passes validation with a website (absent included) or a
\* populated social link that does not normalize is answered with a validation
\* failure: the request neither stays unanswered nor ends as a server error.
UnparsableLinkRejected ==
  \A c \in Slots :
    /\ req[c].op = "upsert"
    /\ PostErrors(PostBodies[req[c].body]) = {}
    /\ BuildThrows(PostBodies[req[c].body])
    => req[c].pc = "done" /\ req[c].status = 400

\* the documents of the owners other than u
OwnedByOthers(ps, u) == {d \in ps : d.user # u}

\* C13: no step of a removal from the experience list, whatever identifier it
\* carries, changes a document owned by an identity other than the caller's.
RemoveScopedToCaller ==
  [][\A c \in Slots :
       req[c].op = "remove" /\ req[c].kind = "experience" /\ req'[c] # req[c]
         => OwnedByOthers(profiles', req[c].user) = OwnedByOthers(profiles, req[c].user)]_vars

\* a removal that carried the identifier of an entry of another owner's list has
\* succeeded, and the entry is still in that list
RemovedWithForeignId ==
  \E c \in Slots :
    /\ Answered(c, "remove", 200) /\ req[c].kind = "experience"
    /\ \E d \in profiles : d.user # req[c].user /\ ElemMatch(d, req[c].param)

\* the documents whose experience list has an entry with the identifier
Holding(ps, param) ==
  {d \in ps : \E i \in 1..Len(d.experience) : IdToString(d.experience[i].id) = param}

\* C14: an update that succeeds changes, in the one document of the whole store
\* whose experience list has the entry, whoever owns it, that entry alone: the
\* entry keeps its identifier and its place, and the other entries, the education
\* list, the scalar fields and every other document stay as they were.
UpdateTouchesOneEntry ==
  [][\A c \in Slots :
       req[c].pc = "update" /\ req'[c].pc = "done" /\ req'[c].status = 200
         => LET r == req[c] IN
            IF Holding(profiles, r.param) = {} THEN profiles' = profiles
            ELSE \E d \in Holding(profiles, r.param), e \in profiles' :
                   /\ profiles' = (profiles \ {d}) \cup {e}
                   /\ e.id = d.id /\ Scalars(e) = Scalars(d) /\ e.education = d.education
                   /\ Len(e.experience) = Len(d.experience)
                   /\ \A i \in 1..Len(d.experience) :
                        e.experience[i] =
                          IF IdToString(d.experience[i].id) = r.param
                          THEN NewExp(d.experience[i].id, PatchBodies[r.body])
                          ELSE d.experience[i]]_vars

\* an identity has updated the second entry of another owner's list
UpdatedForeignEntry ==
  \E c \in Slots :
    /\ Answered(c, "update", 200) /\ req[c].found = "doc"
    /\ Len(req[c].before) >= 2
    /\ IdToString(req[c].before[2].id) = req[c].param
    /\ req[c].after[2] # req[c].before[2]
    /\ req[c].after[1] = req[c].before[1]
    /\ \E d \in profiles : d.user # req[c].user /\ d.experience = req[c].after

\* how a request that found no profile, or no repositories, was answered
Outcome(c) == <<req[c].status, req[c].msg>>

\* C15: every failure of the lookup at the third party (no connection, unknown
\* handle, rate limit, malformed response) is answered with the one outcome
\* "enrichment unavailable", which no profile read gives for a missing profile.
LookupFailureIsUnavailable ==
  \A c \in Slots :
    /\ Done(c, "github") /\ req[c].cause # "repos"
         => Outcome(c) = <<404, "No Github profile found">>
    /\ req[c].op \in {"getMe", "getById"} /\ req[c].pc = "done"
         => Outcome(c) # <<404, "No Github profile found">>

\* C16: every lookup request is answered in the end, with the repositories or
\* with the unavailable condition, also when the third party never responds.
LookupAnswered ==
  \A c \in Slots : (req[c].pc = "github") ~> (req[c].pc = "done")

\* the string has not the form of an identifier of the store: 24 hex digits, or
\* the 12 characters that are an identifier's bytes
Malformed(s) == Len(s) \notin {12, 24} \/ (Len(s) = 24 /\ \E i \in 1..24 : s[i] \notin HexDigits)

\* C17: a read by an identifier that is not well formed is answered "invalid
\* identifier" without a lookup, and a read that looked up a well-formed
\* identifier and found no profile is answered "not found", a different outcome.
InvalidIdRejectedFirst ==
  \A c \in Slots :
    req[c].op = "getById"
      => /\ Malformed(req[c].param)
              => /\ req[c].pc = "done" /\ req[c].found = "none"
                 /\ Outcome(c) = <<400, "Invalid user ID">>
         /\ req[c].pc = "done" /\ req[c].found = "null"
              => /\ ~Malformed(req[c].param)
                 /\ Outcome(c) = <<400, "Profile not found">>
                 /\ Outcome(c) # <<400, "Invalid user ID">>

\* "not-an-id" has been rejected, and the identifier of no account was not found
RejectedAndNotFound ==
  \E c1 \in Slots, c2 \in Slots :
    /\ Done(c1, "getById") /\ req[c1].param = <<"n", "o", "t", "-", "a", "n", "-", "i", "d">>
    /\ req[c1].msg = "Invalid user ID"
    /\ Done(c2, "getById") /\ req[c2].param = [i \in 1..24 |-> "c"]
    /\ req[c2].found = "null" /\ req[c2].msg = "Profile not found"

\* the upsert of client c is applied in this step
Upserted(c) ==
  /\ req[c].op = "upsert" /\ req[c].pc \in {"upsert", "insert"}
  /\ req'[c].pc = "done" /\ req'[c].status = 200

\* C18: an upsert that follows an upsert of the same identity with the same
\* fields, with the aggregate still as the first one wrote it, leaves the
\* aggregate's scalar and social fields as they were, and the identity with
\* exactly one aggregate.
UpsertIdempotent ==
  [][\A c \in Slots :
       /\ Upserted(c)
       /\ req[c].prev.op = "upsert" /\ req[c].prev.user = req[c].user
       /\ req[c].prev.body = req[c].body
       /\ \E d \in profiles : d.user = req[c].user /\ Scalars(d) = req[c].prev.wrote
       => /\ \A d \in profiles' : d.user = req[c].user => Scalars(d) = req[c].prev.wrote
          /\ Cardinality({d \in profiles' : d.user = req[c].user}) = 1]_vars

\* a client has sent the upsert with the delimited skills and the links twice
UpsertedTwice ==
  \E c \in Slots :
    /\ Answered(c, "upsert", 200) /\ req[c].body = 1
    /\ req[c].prev.op = "upsert" /\ req[c].prev.user = req[c].user
    /\ req[c].prev.body = req[c].body
    /\ req[c].wrote = req[c].prev.wrote
    /\ \E d \in profiles : d.user = req[c].user /\ Scalars(d) = req[c].wrote

\* C19: once a cascade has answered success, the store holds no profile of its
\* identity while the account is gone, whatever upsert of that identity was in
\* flight during the cascade.
NoProfileWithoutAccount ==
  \A c \in Slots :
    Answered(c, "deleteOwner", 200)
      => \A d \in profiles : d.user = req[c].user => d.user \in users

\* C20: an upsert for an identity that has an aggregate leaves the aggregate's
\* experience and education lists as they were: entries, identifiers and order.
UpsertKeepsLists ==
  [][\A c \in Slots :
       Upserted(c)
         => \A d \in profiles :
              d.user = req[c].user
                => \E e \in profiles' :
                     /\ e.id = d.id /\ e.user = d.user
                     /\ e.experience = d.experience /\ e.education = d.education]_vars

\* an upsert has changed the scalar fields of an aggregate that has two entries
UpsertedOverLists ==
  \E c \in Slots :
    /\ Answered(c, "upsert", 200) /\ req[c].found = "doc" /\ req[c].body = 1
    /\ \E d \in profiles :
         /\ d.user = req[c].user /\ Scalars(d) = req[c].wrote
         /\ d.status = "Developer" /\ Len(d.experience) >= 2
====
